---- MODULE Spec2Model ----
(***************************************************************************)
(* A model of the completion engine of nsh: the candidate browser          *)
(* (Completions, src/src/completion.rs) and the context extractor          *)
(* (extract_completion_context, same file).                                *)
(***************************************************************************)
EXTENDS Integers, Sequences, FiniteSets, TLC

(***************************************************************************)
(* Bounds of the model.                                                    *)
(***************************************************************************)
\* Width, in bits, of the machine integers isize and usize of the model.
IsizeBits == 5
\* Longest entry list a browser is built from.
MaxEntries == 12
\* Longest input line drawn from Alphabet (the example lines are longer).
MaxLineLen == 4
\* Largest index of a positional parameter, and largest count given to shift.
MaxParams == 3
\* Most calls of add_alias in one run.
MaxAliasCalls == 3
\* Most entries of a directory.
MaxDirEntries == 2

\* const COMPLETION_LINES: usize = 5;
COMPLETION_LINES == 5

IsizeMax == 2 ^ (IsizeBits - 1) - 1
IsizeMin == 0 - 2 ^ (IsizeBits - 1)
UsizeMax == 2 ^ IsizeBits - 1
Isize == IsizeMin .. IsizeMax

VARIABLES
    entries,          \* Completions.entries
    selected_index,   \* Completions.selected_index
    display_lines,    \* Completions.display_lines
    display_index,    \* Completions.display_index
    offset,           \* the argument of the latest move_cursor call
    overflow_checks,  \* whether the build panics on integer overflow
    panicked,         \* an arithmetic overflow panic unwound the caller
    last_call,        \* the latest method called on the Completions
    returned,         \* what that method returned
    line,             \* user_input of extract_completion_context
    user_cursor,      \* user_cursor of extract_completion_context
    space_is_word_char,      \* parser::is_valid_word_char(' ')
    backslash_is_word_char,  \* parser::is_valid_word_char('\\')
    ctx,              \* the CompletionContext returned
    extract_pc,       \* "call" before extract_completion_context, "returned" after
    argv,             \* ctx.argv of the shift builtin
    isolate,          \* ctx.isolate: the variables, a map from name to value
    isolate_before,   \* the variables when shift was called
    stdout,           \* ctx.stdout: what was written to it
    exit_status,      \* the ExitStatus returned by shift
    shift_pc,         \* "call" before shift, "returned" after
    aliases,          \* ALIASES: the map from alias name to its words
    aliases_before,   \* ALIASES when the last operation on it was called
    alias_log,        \* the lines given to add_alias so far, oldest first
    alias_last,       \* the last operation on ALIASES
    alias_arg,        \* its argument
    alias_returned,   \* what it returned
    threads,          \* each thread: where it is in its call, and what it got
    funcs,            \* COMPLETION_FUNCS: the map from command name to generator
    funcs_lock,       \* the thread holding the mutex of COMPLETION_FUNCS, or Free
    funcs_poisoned,   \* a thread panicked while holding that mutex
    aliases_lock      \* the thread holding the mutex of ALIASES, or Free

browser_vars == <<entries, selected_index, display_lines, display_index,
                  offset, overflow_checks, panicked, last_call, returned>>

context_vars == <<line, user_cursor, space_is_word_char,
                  backslash_is_word_char, ctx, extract_pc>>

shift_vars == <<argv, isolate, isolate_before, stdout, exit_status, shift_pc>>

alias_vars ==
    <<aliases, aliases_before, alias_log, alias_last, alias_arg, alias_returned>>

shell_vars == <<threads, funcs, funcs_lock, funcs_poisoned, aliases_lock>>

vars == <<browser_vars, context_vars, shift_vars, alias_vars, shell_vars>>

\* What the methods of Completions leave alone.
outside_browser == <<context_vars, shift_vars, alias_vars, shell_vars>>

\* What extract_completion_context leaves alone.
outside_context == <<browser_vars, shift_vars, alias_vars, shell_vars>>

\* What the shift builtin leaves alone.
outside_shift == <<browser_vars, context_vars, alias_vars, shell_vars>>

\* What the alias store's operations leave alone.
outside_alias == <<browser_vars, context_vars, shift_vars, shell_vars>>

\* What a step of a thread leaves alone, the alias map apart.
outside_shell ==
    <<browser_vars, context_vars, shift_vars,
      aliases_before, alias_log, alias_last, alias_arg, alias_returned>>

(***************************************************************************)
(* Completions                                                             *)
(***************************************************************************)
\* Two's complement wrap of an out-of-range isize result.
WrapIsize(x) == ((x - IsizeMin) % (2 ^ IsizeBits)) + IsizeMin

\* `old_selected_index += offset` does not fit in isize.
AddOverflows(sel, off) == sel + off > IsizeMax \/ sel + off < IsizeMin

\* The two clamps of move_cursor, applied to old_selected_index.
ClampSelected(old, entries_len) ==
    LET upper == IF entries_len > 0 /\ old > entries_len - 1
                 THEN entries_len - 1 ELSE old
    IN  IF upper < 0 THEN 0 ELSE upper

SlideDownWrong(sel, disp, lines) ==
    IF sel >= disp + lines THEN sel - lines ELSE disp

\* if self.selected_index >= self.display_index + self.display_lines { .. }
SlideDown(sel, disp, lines) ==
    IF sel >= disp + lines THEN sel - lines + 1 ELSE disp

SlideUpWrong(sel, disp) ==
    IF sel < disp THEN (IF sel > 0 THEN sel - 1 ELSE 0) ELSE disp

\* if self.selected_index < self.display_index { .. }
SlideUp(sel, disp) ==
    IF sel < disp THEN sel ELSE disp

EntryLists == { [i \in 1 .. n |-> i] : n \in 0 .. MaxEntries }

\* Completions::new
BrowserInit ==
    /\ entries \in EntryLists
    /\ selected_index = 0
    /\ display_lines = COMPLETION_LINES
    /\ display_index = 0
    /\ offset = 0
    /\ overflow_checks \in BOOLEAN
    /\ panicked = FALSE
    /\ last_call = "new"
    /\ returned = << >>

\* Completions::len
len == Len(entries)

\* Completions::move_cursor
move_cursor(off) ==
    /\ ~panicked
    /\ offset' = off
    /\ last_call' = "move_cursor"
    /\ returned' = << >>
    /\ IF AddOverflows(selected_index, off) /\ overflow_checks
       THEN /\ panicked' = TRUE
            /\ UNCHANGED <<entries, selected_index, display_lines,
                           display_index, overflow_checks>>
       ELSE LET old == WrapIsize(selected_index + off)
                sel == ClampSelected(old, len)
            IN  /\ selected_index' = sel
                /\ display_index' =
                       SlideUp(sel, SlideDown(sel, display_index, display_lines))
                /\ UNCHANGED <<entries, display_lines, overflow_checks, panicked>>
    /\ UNCHANGED outside_browser

BrowserNext == \E off \in Isize : move_cursor(off)

\* A method taking &self: it returns `value` and writes no field.
Accessor(name, value) ==
    /\ ~panicked
    /\ last_call' = name
    /\ returned' = value
    /\ UNCHANGED <<entries, selected_index, display_lines, display_index,
                   offset, overflow_checks, panicked>>
    /\ UNCHANGED outside_browser

call_entries_taking ==
    /\ ~panicked
    /\ last_call' = "entries"
    /\ returned' = entries
    /\ entries' = << >>
    /\ UNCHANGED <<selected_index, display_lines, display_index,
                   offset, overflow_checks, panicked>>
    /\ UNCHANGED outside_browser

\* Completions::entries: self.entries.clone()
call_entries == Accessor("entries", entries)

\* Completions::len
call_len == Accessor("len", <<len>>)

\* Completions::selected: self.entries.get(self.selected_index).cloned(), an
\* Option (here a sequence of at most one element).
call_selected ==
    Accessor("selected",
             IF selected_index < len THEN <<entries[selected_index + 1]>>
             ELSE << >>)

\* Completions::selected_index
call_selected_index == Accessor("selected_index", <<selected_index>>)

\* Completions::display_lines
call_display_lines == Accessor("display_lines", <<display_lines>>)

\* Completions::display_index
call_display_index == Accessor("display_index", <<display_index>>)

\* Any method of Completions.
AccessNext ==
    \/ \E off \in Isize : move_cursor(off)
    \/ call_entries
    \/ call_len
    \/ call_selected
    \/ call_selected_index
    \/ call_display_lines
    \/ call_display_index


(***************************************************************************)
(* CompletionContext and extract_completion_context                        *)
(*                                                                         *)
(* A line is a sequence of characters, each a one-character string; a word *)
(* is one too.  All characters of the model are ASCII, so that a length in *)
(* bytes (String::len) and a length in chars agree.                        *)
(***************************************************************************)
Quote == "\""
Backslash == "\\"
Space == " "
\* '\x00', the initial prev_ch
Nul == "NUL"

Alphabet == {"a", Space, Quote, Backslash, "|", "*"}

EchoLine == <<"e", "c", "h", "o", " ", "\"", "a", "\\", "\"", "b", "\"", " ", "c">>
PipeLine == <<"l", "s", " ", "f", "o", "o", " ", "|", " ", "g", "r", "e", "p",
              " ", "b", "a", "r">>
CatLine == <<"c", "a", "t", " ", "/", "e", "t", "c", "/", "h", "o">>

ExampleLines == {EchoLine, PipeLine, CatLine}

Lines == UNION { [1 .. n -> Alphabet] : n \in 0 .. MaxLineLen } \cup ExampleLines

\* parser::is_valid_word_char.  Its source is not at hand: the letters and
\* '/' are word characters and '|' is not; its answers for the space and for
\* the backslash are left open (both are checked).  The scan never asks it
\* about '"', and its answer for '*' and '?' is overridden by the scan.
is_valid_word_char(ch) ==
    CASE ch = Space -> space_is_word_char
      [] ch = Backslash -> backslash_is_word_char
      [] ch \in {"|", "*", "?", Quote} -> FALSE
      [] OTHER -> TRUE

\* #[derive(Default)] CompletionContext
DefaultContext ==
    [words |-> << >>, current_word_index |-> 0, line |-> << >>,
     current_word_offset |-> 0, current_word_len |-> 0, user_cursor |-> 0]

\* CompletionContext::current_word: the word, or "None".
current_word(c) ==
    IF c.current_word_index + 1 \in 1 .. Len(c.words)
    THEN c.words[c.current_word_index + 1]
    ELSE "None"

RECURSIVE TrimStart(_, _)
TrimStart(w, ch) ==
    IF w # << >> /\ Head(w) = ch THEN TrimStart(Tail(w), ch) ELSE w

RECURSIVE TrimEnd(_, _)
TrimEnd(w, ch) ==
    IF w # << >> /\ w[Len(w)] = ch
    THEN TrimEnd(SubSeq(w, 1, Len(w) - 1), ch) ELSE w

\* str::trim_matches
trim_matches(w, ch) == TrimEnd(TrimStart(w, ch), ch)

\* The locals of the scan before the first character.
ScanStart ==
    [words |-> << >>, word |-> << >>, in_string |-> FALSE, prev_ch |-> Nul,
     current_word_offset |-> 0]

\* (true, '\\', '"') => { word = word.trim_matches('\\').to_owned(); word.push('"'); }
UnescapeQuote(st) ==
    [st EXCEPT !.word = Append(trim_matches(st.word, Backslash), Quote)]

\* (false, _, ' ') => { words.push(word); word = new; current_word_offset = offset + 1 }
FinishWord(st, off) ==
    [st EXCEPT !.words = Append(st.words, st.word), !.word = << >>,
               !.current_word_offset = off + 1]

ResetScanKeepingWords(st, off) ==
    [st EXCEPT !.word = << >>, !.current_word_offset = off + 1]

\* (false, _, ch) if !is_valid_word_char(ch) && .. => { words = new; word = new; .. }
ResetScan(st, off) ==
    [st EXCEPT !.words = << >>, !.word = << >>, !.current_word_offset = off + 1]

\* The guard of the reset arm (first loop) and of the break arm (second loop).
EndsScan(ch) == ~is_valid_word_char(ch) /\ ch # "*" /\ ch # "?"

\* The match of the first loop, then `prev_ch = ch`.
StepBefore(st, off, ch) ==
    LET next ==
          IF st.in_string /\ st.prev_ch = Backslash /\ ch = Quote
            THEN UnescapeQuote(st)
          ELSE IF st.in_string /\ ch = Quote THEN [st EXCEPT !.in_string = FALSE]
          ELSE IF ~st.in_string /\ ch = Quote THEN [st EXCEPT !.in_string = TRUE]
          ELSE IF ~st.in_string /\ ch = Space THEN FinishWord(st, off)
          ELSE IF ~st.in_string /\ EndsScan(ch) THEN ResetScan(st, off)
          ELSE [st EXCEPT !.word = Append(st.word, ch)]
    IN  [next EXCEPT !.prev_ch = ch]

\* for (offset, ch) in line.chars().take(user_cursor).enumerate(): the locals
\* after the first n characters.
RECURSIVE ScanBefore(_, _)
ScanBefore(l, n) ==
    IF n = 0 THEN ScanStart
    ELSE StepBefore(ScanBefore(l, n - 1), n - 1, l[n])

\* for ch in line.chars().skip(user_cursor): from the i-th character on.  The
\* loop leaves prev_ch as the first loop left it.
RECURSIVE ScanAfter(_, _, _)
ScanAfter(l, i, st) ==
    IF i > Len(l) THEN st
    ELSE LET ch == l[i] IN
         IF st.in_string /\ st.prev_ch = Backslash /\ ch = Quote
           THEN ScanAfter(l, i + 1, UnescapeQuote(st))
         ELSE IF st.in_string /\ ch = Quote
           THEN ScanAfter(l, i + 1, [st EXCEPT !.in_string = FALSE])
         ELSE IF ~st.in_string /\ ch = Quote
           THEN ScanAfter(l, i + 1, [st EXCEPT !.in_string = TRUE])
         ELSE IF ~st.in_string /\ EndsScan(ch) THEN st
         ELSE ScanAfter(l, i + 1, [st EXCEPT !.word = Append(st.word, ch)])

Min(a, b) == IF a < b THEN a ELSE b

ProvisionalIndexWrong(words) == Len(words) - 1

\* let mut current_word_index = words.len() as isize;
ProvisionalIndex(words) == Len(words)

MergedIndexWrong(words) == Len(words)

\* current_word_index = words.len() as isize - 1;
MergedIndex(words) == Len(words) - 1

\* extract_completion_context
Extract(l, cursor) ==
    LET before == ScanBefore(l, Min(cursor, Len(l)))
        after == ScanAfter(l, Min(cursor, Len(l)) + 1, before)
    IN  IF after.word # << >>
        THEN [words |-> Append(before.words, after.word),
              current_word_index |-> MergedIndex(Append(before.words, after.word)),
              line |-> l,
              current_word_offset |-> before.current_word_offset,
              current_word_len |-> Len(after.word),
              user_cursor |-> cursor]
        ELSE [words |-> before.words,
              current_word_index |-> ProvisionalIndex(before.words),
              line |-> l,
              current_word_offset |-> before.current_word_offset,
              current_word_len |-> 0,
              user_cursor |-> cursor]

\* A call about to be made: any line, any cursor up to one past its end, and
\* either answer of is_valid_word_char for the space and for the backslash.
ContextInit ==
    /\ space_is_word_char \in BOOLEAN
    /\ backslash_is_word_char \in BOOLEAN
    /\ line \in Lines
    /\ user_cursor \in 0 .. Len(line) + 1
    /\ ctx = DefaultContext
    /\ extract_pc = "call"

\* The variables of the extractor while the browser alone is checked.
ContextIdle ==
    /\ line = << >>
    /\ user_cursor = 0
    /\ space_is_word_char = FALSE
    /\ backslash_is_word_char = FALSE
    /\ ctx = DefaultContext
    /\ extract_pc = "call"

\* The variables of the browser while the extractor alone is checked.
BrowserIdle ==
    /\ entries = << >>
    /\ selected_index = 0
    /\ display_lines = COMPLETION_LINES
    /\ display_index = 0
    /\ offset = 0
    /\ overflow_checks = FALSE
    /\ panicked = FALSE
    /\ last_call = "new"
    /\ returned = << >>

extract_completion_context ==
    /\ extract_pc = "call"
    /\ ctx' = Extract(line, user_cursor)
    /\ extract_pc' = "returned"
    /\ UNCHANGED <<line, user_cursor, space_is_word_char, backslash_is_word_char>>
    /\ UNCHANGED outside_context

ContextNext == extract_completion_context


(***************************************************************************)
(* The shift builtin (src/src/builtins/shift.rs)                           *)
(***************************************************************************)
Digits == <<"0", "1", "2", "3", "4", "5", "6", "7", "8", "9">>

\* usize::to_string: the decimal numeral of i.
RECURSIVE to_string(_)
to_string(i) ==
    IF i < 10 THEN Digits[i + 1]
    ELSE to_string(i \div 10) \o Digits[(i % 10) + 1]

\* The names a variable of the model may have: the positional parameters and
\* one other variable.
VarNames == { to_string(i) : i \in 0 .. MaxParams } \cup {"HOME"}

VarValues == {"a", "b"}

\* The variable stores: every map from some of the names to values.
Isolates == UNION { [S -> VarValues] : S \in SUBSET VarNames }

\* The argument vectors: no argument, a count, and malformed ones.
Argvs ==
    {<<"shift">>, <<"shift", "x">>, <<"shift", "-1">>, <<"shift", "1", "2">>,
     <<"shift", "">>}
        \cup { <<"shift", to_string(n)>> : n \in 0 .. MaxParams + 1 }

\* Isolate::get: Some(value) as <<value>>, None as << >>.
IsolateGet(store, name) ==
    IF name \in DOMAIN store THEN <<store[name]>> ELSE << >>

\* Isolate::remove
IsolateRemove(store, name) ==
    [k \in DOMAIN store \ {name} |-> store[k]]

\* Isolate::set
IsolateSet(store, name, value) ==
    [k \in DOMAIN store \cup {name} |-> IF k = name THEN value ELSE store[k]]

\* <usize as FromStr>::from_str for the numerals of the model: <<n>>, or << >>
\* for an error.
ParseUsize(s) ==
    LET N == { n \in 0 .. MaxParams + 1 : to_string(n) = s }
    IN  IF N = {} THEN << >> ELSE <<CHOOSE n \in N : TRUE>>

ParseOptLenient(args) ==
    IF Len(args) = 2 /\ ParseUsize(args[2]) # << >>
    THEN [ok |-> TRUE, n |-> ParseUsize(args[2]), err |-> ""]
    ELSE [ok |-> TRUE, n |-> << >>, err |-> ""]

\* Opt::from_iter_safe(ctx.argv): one optional positional argument n of type
\* usize after the command name.
ParseOpt(args) ==
    IF Len(args) = 1 THEN [ok |-> TRUE, n |-> << >>, err |-> ""]
    ELSE IF Len(args) > 2
      THEN [ok |-> FALSE, n |-> << >>, err |-> "unexpected argument"]
    ELSE IF ParseUsize(args[2]) = << >>
      THEN [ok |-> FALSE, n |-> << >>, err |-> "invalid value"]
    ELSE [ok |-> TRUE, n |-> ParseUsize(args[2]), err |-> ""]

SkipCountWrong(n) == IF n = << >> THEN 0 ELSE n[1]

\* opts.n.unwrap_or(1)
SkipCount(n) == IF n = << >> THEN 1 ELSE n[1]

\* for i in 0.. { if let Some(var) = get(i) { args.push(var); remove(i) } else
\* { break } }: the store and args when the loop ends, from index i on.
RECURSIVE DrainArgs(_, _, _)
DrainArgs(store, i, args) ==
    LET var == IsolateGet(store, to_string(i)) IN
    IF var # << >>
    THEN DrainArgs(IsolateRemove(store, to_string(i)), i + 1, Append(args, var[1]))
    ELSE [store |-> store, args |-> args]

\* for (i, var) in rest.enumerate() { set(i.to_string(), Value::String(..), true) }
RECURSIVE SetArgs(_, _, _)
SetArgs(store, rest, i) ==
    IF rest = << >> THEN store
    ELSE SetArgs(IsolateSet(store, to_string(i), Head(rest)), Tail(rest), i + 1)

\* Iterator::skip
Skip(seq, n) == SubSeq(seq, n + 1, Len(seq))

ShiftInit ==
    /\ argv \in Argvs
    /\ isolate \in Isolates
    /\ isolate_before = isolate
    /\ stdout = << >>
    /\ exit_status = -1
    /\ shift_pc = "call"

\* The variables of shift while another part is checked.
ShiftIdle ==
    /\ argv = <<"shift">>
    /\ isolate = << >>
    /\ isolate_before = << >>
    /\ stdout = << >>
    /\ exit_status = -1
    /\ shift_pc = "call"

\* builtins::shift::command
command ==
    /\ shift_pc = "call"
    /\ shift_pc' = "returned"
    /\ LET opts == ParseOpt(argv) IN
       IF opts.ok
       THEN LET drained == DrainArgs(isolate, 0, << >>) IN
            /\ isolate' = SetArgs(drained.store,
                                  Skip(drained.args, SkipCount(opts.n)), 0)
            /\ exit_status' = 0
            /\ UNCHANGED stdout
       ELSE /\ stdout' = Append(stdout, "shift: " \o opts.err)
            /\ exit_status' = 1
            /\ UNCHANGED isolate
    /\ UNCHANGED <<argv, isolate_before>>
    /\ UNCHANGED outside_shift

ShiftNext == command


(***************************************************************************)
(* The alias store (src/src/alias.rs)                                      *)
(***************************************************************************)
\* The lines given to the alias command, as sequences of characters:
\* f=b, f=z, g=b z, ff=b, and the malformed f, =b and the empty line.
AliasLines ==
    { <<"f", "=", "b">>, <<"f", "=", "z">>, <<"g", "=", "b", " ", "z">>,
      <<"f", "f", "=", "b">>, <<"f">>, <<"=", "b">>, << >> }

\* The names looked up.
AliasNames == {"f", "ff", "g", "b"}

\* The characters of a sequence as one string.
RECURSIVE Concat(_)
Concat(chars) ==
    IF chars = << >> THEN "" ELSE Head(chars) \o Concat(Tail(chars))

\* The words of a sequence of characters: its maximal runs without a space.
RECURSIVE SplitWords(_, _)
SplitWords(chars, word) ==
    IF chars = << >> THEN (IF word = "" THEN << >> ELSE <<word>>)
    ELSE IF Head(chars) = " "
      THEN (IF word = "" THEN << >> ELSE <<word>>) \o SplitWords(Tail(chars), "")
    ELSE SplitWords(Tail(chars), word \o Head(chars))

\* parser::parse_alias: name=words, with a name that is not empty.
parse_alias(l) ==
    LET eqs == { i \in 1 .. Len(l) : l[i] = "=" } IN
    IF eqs = {} THEN [ok |-> FALSE, name |-> "", words |-> << >>]
    ELSE LET eq == CHOOSE i \in eqs : \A j \in eqs : i <= j IN
         IF eq = 1 THEN [ok |-> FALSE, name |-> "", words |-> << >>]
         ELSE [ok |-> TRUE,
               name |-> Concat(SubSeq(l, 1, eq - 1)),
               words |-> SplitWords(SubSeq(l, eq + 1, Len(l)), "")]

\* BTreeMap::insert
MapInsert(map, key, value) ==
    [k \in DOMAIN map \cup {key} |-> IF k = key THEN value ELSE map[k]]

\* BTreeMap::get(..).cloned(): Some(value) as <<value>>, None as << >>.
MapGet(map, key) ==
    IF key \in DOMAIN map THEN <<map[key]>> ELSE << >>

add_alias_keeping_first(store, l) ==
    LET alias == parse_alias(l) IN
    IF alias.ok /\ alias.name \notin DOMAIN store
    THEN MapInsert(store, alias.name, alias.words)
    ELSE store

add_alias_storing_failures(store, l) ==
    LET alias == parse_alias(l) IN
    IF alias.ok THEN MapInsert(store, alias.name, alias.words)
    ELSE MapInsert(store, Concat(l), << >>)

\* add_alias: the store after it.
add_alias(store, l) ==
    LET alias == parse_alias(l) IN
    IF alias.ok THEN MapInsert(store, alias.name, alias.words) ELSE store

\* ALIASES at program start; also its value while another part is checked.
AliasIdle ==
    /\ aliases = << >>
    /\ aliases_before = << >>
    /\ alias_log = << >>
    /\ alias_last = "none"
    /\ alias_arg = << >>
    /\ alias_returned = << >>

\* alias_command(argv): argv is the command name and the given lines.
alias_command(args) ==
    /\ Len(alias_log) < MaxAliasCalls
    /\ alias_last' = "alias_command"
    /\ alias_arg' = args
    /\ aliases_before' = aliases
    /\ IF Len(args) >= 2
       THEN /\ aliases' = add_alias(aliases, args[2])
            /\ alias_log' = Append(alias_log, args[2])
       ELSE UNCHANGED <<aliases, alias_log>>
    /\ alias_returned' = <<0>>
    /\ UNCHANGED outside_alias

lookup_alias(alias) ==
    /\ alias_last' = "lookup_alias"
    /\ alias_arg' = <<alias>>
    /\ aliases_before' = aliases
    /\ alias_returned' = MapGet(aliases, alias)
    /\ UNCHANGED <<aliases, alias_log>>
    /\ UNCHANGED outside_alias

AliasNext ==
    \/ \E l \in AliasLines : alias_command(<<"alias", l>>)
    \/ \E l \in AliasLines : alias_command(<<"alias", l, <<"g", "=", "b">> >>)
    \/ alias_command(<<"alias">>)
    \/ \E name \in AliasNames : lookup_alias(name)


(***************************************************************************)
(* Dispatch and the two process-wide maps under threads                    *)
(* (src/src/completion.rs 153-220, src/src/alias.rs)                       *)
(***************************************************************************)
\* The threads of the shell: one rendering completions, one running commands.
Threads == {"render", "command"}

Free == "free"

\* The lines whose contexts are given to call_completion: a, the empty line,
\* "a ", a b, a b/, a /b, a b/c, a /. and cat /etc/ho.
DispatchLines ==
    { <<"a">>, << >>, <<"a", " ">>, <<"a", " ", "b">>,
      <<"a", " ", "b", "/">>, <<"a", " ", "/", "b">>,
      <<"a", " ", "b", "/", "c">>, <<"a", " ", "/", ".">>, CatLine }

\* The contexts extract_completion_context makes of them, cursor at the end.
DispatchContexts == { Extract(l, Len(l)) : l \in DispatchLines }

\* The lines given to add_alias by a thread, and the names looked up.
SharedAliasLines == { <<"f", "=", "b">>, <<"f", "=", "b", " ", "z">>, <<"f">> }

SharedAliasNames == {"f"}

\* What reading one directory entry gives: an entry with its name, an
\* io::Error, or an entry whose name is not UTF-8.
DirEntries ==
    { [kind |-> "entry", name |-> <<"h">>], [kind |-> "entry", name |-> <<"b">>],
      [kind |-> "io_error", name |-> << >>], [kind |-> "not_utf8", name |-> << >>] }

\* What std::fs::read_dir gives: an error, or the entries in directory order.
Listings ==
    { [ok |-> FALSE, entries |-> << >>] }
        \cup { [ok |-> TRUE, entries |-> e] :
                 e \in UNION { [1 .. n -> DirEntries] : n \in 0 .. MaxDirEntries } }

HasCurrentWord(c) == c.current_word_index + 1 \in 1 .. Len(c.words)

ends_with(w, ch) == w # << >> /\ w[Len(w)] = ch

contains(w, ch) == \E i \in 1 .. Len(w) : w[i] = ch

\* The parts of a path between its separators, the empty ones dropped.
RECURSIVE SplitPath(_, _)
SplitPath(chars, part) ==
    IF chars = << >> THEN (IF part = << >> THEN << >> ELSE <<part>>)
    ELSE IF Head(chars) = "/"
      THEN (IF part = << >> THEN << >> ELSE <<part>>) \o SplitPath(Tail(chars), << >>)
    ELSE SplitPath(Tail(chars), Append(part, Head(chars)))

\* Path::components after the root: "." is dropped unless it begins a path
\* without a root.
Components(w) ==
    LET parts == SplitPath(w, << >>)
        has_root == w # << >> /\ w[1] = "/"
    IN  SelectSeq([i \in 1 .. Len(parts) |-> [at |-> i, part |-> parts[i]]],
                  LAMBDA x : x.part # <<".">> \/ (x.at = 1 /\ ~has_root))

RECURSIVE JoinPath(_)
JoinPath(comps) ==
    IF comps = << >> THEN << >>
    ELSE IF Len(comps) = 1 THEN comps[1].part
    ELSE comps[1].part \o <<"/">> \o JoinPath(Tail(comps))

\* PathBuf::from(w).parent(): None as << >> when the path ends in the root
\* or is empty, else Some(path without its last component) as << path >>.
\* The path is given by its components, separators not doubled.
parent(w) ==
    LET comps == Components(w)
        has_root == w # << >> /\ w[1] = "/"
    IN  IF comps = << >> THEN << >>
        ELSE << (IF has_root THEN <<"/">> ELSE << >>)
                  \o JoinPath(SubSeq(comps, 1, Len(comps) - 1)) >>

\* DirEntry::path: the directory given to read_dir joined with the name.
EntryPath(dir, name) ==
    IF dir = << >> \/ ends_with(dir, "/") THEN dir \o name
    ELSE dir \o <<"/">> \o name

\* chars is a subsequence of text.
RECURSIVE IsSubsequence(_, _)
IsSubsequence(chars, text) ==
    IF chars = << >> THEN TRUE
    ELSE IF text = << >> THEN FALSE
    ELSE IF Head(chars) = Head(text) THEN IsSubsequence(Tail(chars), Tail(text))
    ELSE IsSubsequence(chars, Tail(text))

\* FuzzyVec::from_vec(entries).search(query): the entries matching the query.
FuzzySearch(candidates, query) ==
    SelectSeq(candidates, LAMBDA e : IsSubsequence(query, e))

\* Completions::new
NewCompletions(results) ==
    [entries |-> results, selected_index |-> 0,
     display_lines |-> COMPLETION_LINES, display_index |-> 0]

\* CompGen::new().entries(candidates).search(query).build(); query is
\* << >> for None and << word >> for Some(word).
build(candidates, query) ==
    NewCompletions(IF query # << >> THEN FuzzySearch(candidates, query[1])
                   ELSE candidates)

\* The commands crate::path::complete searches.
Executables == << <<"a">>, <<"c", "a", "t">> >>

\* crate::path::complete
PathComplete(query) == NewCompletions(FuzzySearch(Executables, query))

cmd_completion(c) ==
    IF HasCurrentWord(c) THEN PathComplete(current_word(c))
    ELSE PathComplete(<< >>)

\* The directory path_completion gives to read_dir as << dir >>, or << >>
\* when parent() is None and its unwrap panics.
GivenDirectory(c) ==
    IF HasCurrentWord(c) /\ ends_with(current_word(c), "/")
      THEN <<current_word(c)>>
    ELSE IF HasCurrentWord(c) /\ contains(current_word(c), "/")
      THEN parent(current_word(c))
    ELSE << <<".">> >>

\* The for loop of path_completion over the entries read: the paths pushed,
\* and the unwrap that panicked if one did.
RECURSIVE PushEntries(_, _, _)
PushEntries(dir, read, pushed) ==
    IF read = << >> THEN [panic |-> "none", entries |-> pushed]
    ELSE IF Head(read).kind = "io_error"
      THEN [panic |-> "entry_unwrap", entries |-> pushed]
    ELSE IF Head(read).kind = "not_utf8"
      THEN [panic |-> "to_str_unwrap", entries |-> pushed]
    ELSE PushEntries(dir, Tail(read),
                     Append(pushed, EntryPath(dir, Head(read).name)))

\* path_completion when read_dir answers with listing: the directory read,
\* the query given to search, and the Completions returned as << value >>,
\* or the panic.
path_completion(c, listing) ==
    LET dir == GivenDirectory(c)
        query == IF HasCurrentWord(c) THEN <<current_word(c)>> ELSE << >>
    IN  IF dir = << >>
        THEN [panic |-> "parent_unwrap", read_dir |-> << >>, query |-> << >>,
              result |-> << >>]
        ELSE LET pushed == IF listing.ok
                           THEN PushEntries(dir[1], listing.entries, << >>)
                           ELSE [panic |-> "none", entries |-> << >>]
             IN  IF pushed.panic # "none"
                 THEN [panic |-> pushed.panic, read_dir |-> dir, query |-> << >>,
                       result |-> << >>]
                 ELSE [panic |-> "none", read_dir |-> dir, query |-> query,
                       result |-> <<build(pushed.entries, query)>>]

\* A thread outside every call.
IdleThread ==
    [pc |-> "idle", call |-> "none", arg |-> << >>, result |-> << >>,
     generator |-> "none", read_dir |-> << >>,
     query |-> << >>, panic |-> "none"]

\* The program at start: both maps empty, no mutex held, every thread idle.
ShellInit ==
    /\ threads = [t \in Threads |-> IdleThread]
    /\ funcs = << >>
    /\ funcs_lock = Free
    /\ funcs_poisoned = FALSE
    /\ aliases_lock = Free

CanLockAlways(lock) == TRUE

\* Mutex::lock returns once no thread holds the mutex.
CanLock(lock) == lock = Free

\* call_completion up to COMPLETION_FUNCS.lock(): the first word is completed
\* without the lock, any other word goes on to take it.
call_completion(t, c) ==
    /\ threads[t].pc = "idle"
    /\ threads' =
         [threads EXCEPT ![t] =
            IF c.current_word_index = 0
            THEN [IdleThread EXCEPT !.call = "call_completion", !.arg = c,
                                    !.generator = "cmd_completion",
                                    !.result = <<cmd_completion(c)>>]
            ELSE [IdleThread EXCEPT !.call = "call_completion", !.arg = c,
                                    !.pc = "lock_funcs"]]
    /\ UNCHANGED <<funcs, funcs_lock, funcs_poisoned, aliases_lock, aliases>>
    /\ UNCHANGED outside_shell

\* COMPLETION_FUNCS.lock().unwrap(): the guard, or a panic when the mutex is
\* poisoned.
lock_funcs(t) ==
    /\ threads[t].pc = "lock_funcs"
    /\ CanLock(funcs_lock)
    /\ IF funcs_poisoned
       THEN /\ threads' = [threads EXCEPT ![t].pc = "panicked",
                                          ![t].panic = "poisoned"]
            /\ UNCHANGED funcs_lock
       ELSE /\ threads' = [threads EXCEPT ![t].pc = "dispatch"]
            /\ funcs_lock' = t
    /\ UNCHANGED <<funcs, funcs_poisoned, aliases_lock, aliases>>
    /\ UNCHANGED outside_shell

\* The rest of call_completion, the guard held: funcs.get(words[0]), then the
\* generator found or path_completion; the guard is dropped on return and on
\* unwinding, and unwinding poisons the mutex.
dispatch(t) ==
    /\ threads[t].pc = "dispatch"
    /\ LET c == threads[t].arg
           func == MapGet(funcs, c.words[1])
       IN  \E listing \in Listings :
             LET done == IF func # << >>
                         THEN [panic |-> "none", read_dir |-> << >>,
                               query |-> << >>, result |-> <<func[1]>>]
                         ELSE path_completion(c, listing)
             IN  /\ threads' =
                      [threads EXCEPT
                         ![t].pc = IF done.panic = "none" THEN "idle" ELSE "panicked",
                         ![t].generator = IF func # << >> THEN c.words[1]
                                          ELSE "path_completion",
                         ![t].read_dir = done.read_dir,
                         ![t].query = done.query,
                         ![t].result = done.result,
                         ![t].panic = done.panic]
                 /\ funcs_poisoned' = (funcs_poisoned \/ done.panic # "none")
    /\ funcs_lock' = Free
    /\ UNCHANGED <<funcs, aliases_lock, aliases>>
    /\ UNCHANGED outside_shell

\* alias_command(argv) in a thread, up to ALIASES.lock(): nothing more is
\* done without a line or when the line does not parse.
begin_alias_command(t, args) ==
    /\ threads[t].pc = "idle"
    /\ threads' =
         [threads EXCEPT ![t] =
            IF Len(args) >= 2 /\ parse_alias(args[2]).ok
            THEN [IdleThread EXCEPT !.call = "alias_command", !.arg = args,
                                    !.pc = "lock_aliases"]
            ELSE [IdleThread EXCEPT !.call = "alias_command", !.arg = args,
                                    !.result = <<0>>]]
    /\ UNCHANGED <<funcs, funcs_lock, funcs_poisoned, aliases_lock, aliases>>
    /\ UNCHANGED outside_shell

\* lookup_alias(alias) in a thread, up to ALIASES.lock().
begin_lookup_alias(t, alias) ==
    /\ threads[t].pc = "idle"
    /\ threads' = [threads EXCEPT ![t] =
                     [IdleThread EXCEPT !.call = "lookup_alias", !.arg = alias,
                                        !.pc = "lock_aliases"]]
    /\ UNCHANGED <<funcs, funcs_lock, funcs_poisoned, aliases_lock, aliases>>
    /\ UNCHANGED outside_shell

\* ALIASES.lock().unwrap()
lock_aliases(t) ==
    /\ threads[t].pc = "lock_aliases"
    /\ CanLock(aliases_lock)
    /\ aliases_lock' = t
    /\ threads' = [threads EXCEPT ![t].pc = "aliases_locked"]
    /\ UNCHANGED <<funcs, funcs_lock, funcs_poisoned, aliases>>
    /\ UNCHANGED outside_shell

\* .insert(name, words) of add_alias; the guard is dropped with the statement
\* and alias_command returns 0.
insert_alias(t) ==
    /\ threads[t].pc = "aliases_locked"
    /\ threads[t].call = "alias_command"
    /\ aliases' = add_alias(aliases, threads[t].arg[2])
    /\ aliases_lock' = Free
    /\ threads' = [threads EXCEPT ![t].pc = "idle", ![t].result = <<0>>]
    /\ UNCHANGED <<funcs, funcs_lock, funcs_poisoned>>
    /\ UNCHANGED outside_shell

\* .get(alias).cloned() of lookup_alias; the guard is dropped with the
\* statement.
get_alias(t) ==
    /\ threads[t].pc = "aliases_locked"
    /\ threads[t].call = "lookup_alias"
    /\ aliases_lock' = Free
    /\ threads' = [threads EXCEPT ![t].pc = "idle",
                                  ![t].result = MapGet(aliases, threads[t].arg)]
    /\ UNCHANGED <<funcs, funcs_lock, funcs_poisoned, aliases>>
    /\ UNCHANGED outside_shell

ShellNext ==
    \E t \in Threads :
        \/ \E c \in DispatchContexts : call_completion(t, c)
        \/ lock_funcs(t)
        \/ dispatch(t)
        \/ \E l \in SharedAliasLines : begin_alias_command(t, <<"alias", l>>)
        \/ begin_alias_command(t, <<"alias">>)
        \/ \E name \in SharedAliasNames : begin_lookup_alias(t, name)
        \/ lock_aliases(t)
        \/ insert_alias(t)
        \/ get_alias(t)

(***************************************************************************)
(* Specifications: each part of the program on its own.                    *)
(***************************************************************************)
\* A call of extract_completion_context about to be made, no browser in use.
InitContext ==
    ContextInit /\ BrowserIdle /\ ShiftIdle /\ AliasIdle /\ ShellInit

SpecContext == InitContext /\ [][ContextNext]_vars

\* A call of shift about to be made.
InitShift ==
    ShiftInit /\ BrowserIdle /\ ContextIdle /\ AliasIdle /\ ShellInit

SpecShift == InitShift /\ [][ShiftNext]_vars

\* The alias store at program start.
InitAlias ==
    AliasIdle /\ BrowserIdle /\ ContextIdle /\ ShiftIdle /\ ShellInit

SpecAlias == InitAlias /\ [][AliasNext]_vars

\* The shell at start, its threads about to call.
InitShell ==
    ShellInit /\ AliasIdle /\ BrowserIdle /\ ContextIdle /\ ShiftIdle

SpecShell == InitShell /\ [][ShellNext]_vars

\* A browser just built, no extraction in progress.
Init ==
    BrowserInit /\ ContextIdle /\ ShiftIdle /\ AliasIdle /\ ShellInit

Spec == Init /\ [][BrowserNext]_vars

\* A browser under move_cursor and its accessors.
SpecAccess == Init /\ [][AccessNext]_vars

(***************************************************************************)
(* Claims about the browser.                                               *)
(***************************************************************************)
\* C1: after construction and after every move_cursor call, whatever the
\* entry list (the empty one included) and the offsets,
\* 0 <= display_index <= selected_index < display_index + display_lines,
\* with display_lines fixed at 5.
C1_BrowserInvariant ==
    /\ 0 <= display_index
    /\ display_index <= selected_index
    /\ selected_index < display_index + display_lines
    /\ display_lines = 5

\* C1 witness: an empty browser moved seven rows down, the window having slid.
C1_Witness ==
    /\ len = 0
    /\ offset = 7
    /\ selected_index = 7
    /\ display_index = 3

\* C2: selected_index is clamped, into [0, len-1] when entries is non-empty
\* and to 0 when entries is empty.
C2_SelectedClamped ==
    /\ len > 0 => (0 <= selected_index /\ selected_index <= len - 1)
    /\ len = 0 => selected_index = 0

\* The window position the claim C3 gives for a selection `sel` and a window
\* that began at `disp`.
MinimalSlide(sel, disp) ==
    IF sel >= disp + display_lines THEN sel - display_lines + 1
    ELSE IF sel < disp THEN sel
    ELSE disp

\* C3: every move_cursor call slides the window minimally (selection below
\* the window becomes the last visible row, selection above it becomes the
\* first visible row, otherwise the window stays); and with 12 entries the
\* selection 11 is shown by the window starting at 7, the selection 0 by the
\* window starting at 0.
C3_MinimalSlide ==
    /\ [][display_index' = MinimalSlide(selected_index', display_index)]_vars
    /\ [](len = 12 /\ selected_index = 11 => display_index = 7)
    /\ [](len = 12 /\ selected_index = 0 => display_index = 0)

\* C3 witness: twelve entries, the cursor moved to the last one and back.
C3_Witness ==
    /\ len = 12
    /\ offset = 0 - 11
    /\ selected_index = 0
    /\ display_index = 0
    /\ ~panicked

\* max(0, min(len-1, x))
Saturated(x, entries_len) ==
    LET upper == IF x > entries_len - 1 THEN entries_len - 1 ELSE x
    IN  IF upper < 0 THEN 0 ELSE upper

\* C4: move_cursor has no error path, for any offset of the machine integer:
\* selected_index + offset neither overflows nor wraps, and the new
\* selected_index is max(0, min(len-1, selected_index + offset)).  Stated
\* for the non-empty browsers, where C2's clamp is not in question.
C4_SaturatingMove ==
    [][len > 0 =>
          /\ ~panicked'
          /\ selected_index' = Saturated(selected_index + offset', len)]_vars

(***************************************************************************)
(* Claims about extract_completion_context.                                *)
(***************************************************************************)
Returned == extract_pc = "returned"

\* The number of characters before the cursor.
CursorEnd == Min(user_cursor, Len(line))

\* Whether a double-quoted string is open after the first j characters of l:
\* a quote opens or closes one, except that inside a string a quote right
\* after a backslash is content.
RECURSIVE InStringAfter(_, _)
InStringAfter(l, j) ==
    IF j = 0 THEN FALSE
    ELSE LET open == InStringAfter(l, j - 1) IN
         IF l[j] # Quote THEN open
         ELSE IF open /\ j > 1 /\ l[j - 1] = Backslash THEN TRUE
         ELSE ~open

\* The j-th character of l is a metacharacter outside quotes: not the quote
\* and not the space (which the scan handles first), not a valid word
\* character, not a glob wildcard.
IsMetaAt(l, j) ==
    /\ ~InStringAfter(l, j - 1)
    /\ l[j] \notin {Quote, Space, "*", "?"}
    /\ ~is_valid_word_char(l[j])

\* The j-th character of l is a space outside quotes.
IsSpaceAt(l, j) == ~InStringAfter(l, j - 1) /\ l[j] = Space

\* The last metacharacter outside quotes among the first n characters, or 0.
LastReset(l, n) ==
    LET S == { j \in 1 .. n : IsMetaAt(l, j) }
    IN  IF S = {} THEN 0 ELSE CHOOSE j \in S : \A k \in S : k <= j

\* C5: for every line and cursor (a cursor beyond the end of the line and a
\* cursor inside an open double-quoted string included),
\* extract_completion_context returns a context with current_word_index >= 0.
C5_IndexNonNegative ==
    Returned =>
        /\ ctx.current_word_index \in Nat
        /\ ctx.line = line
        /\ ctx.user_cursor = user_cursor

\* C5 witness: a call returned for a cursor beyond the end of a line that
\* ends inside an open string.
C5_Witness ==
    /\ Returned
    /\ user_cursor > Len(line)
    /\ InStringAfter(line, Len(line))
    /\ ctx.current_word_index = 0
    /\ ctx.current_word_len > 0

\* The cursor is in the first token after the start of the line or the last
\* metacharacter: what lies between holds, after its leading spaces, no space
\* outside quotes.
AtFirstToken ==
    LET p == LastReset(line, CursorEnd)
        seg == p + 1 .. CursorEnd
        started == { j \in seg : line[j] # Space }
    IN  \A j \in seg : IsSpaceAt(line, j) => \A k \in started : j < k

\* C6: current_word_index = 0 exactly when the cursor is in the command name
\* (the first non-empty token after the start of the line or after the last
\* metacharacter outside quotes), and words[0] is never the empty string:
\* leading spaces and a space after a metacharacter insert no empty word.
C6_CommandNameIndex ==
    Returned =>
        /\ ctx.words # << >> => ctx.words[1] # << >>
        /\ AtFirstToken => ctx.current_word_index = 0
        /\ ctx.current_word_index = 0 => AtFirstToken

\* No space and no metacharacter outside quotes lies between the cursor
\* positions c1 and c2 of l: both are inside or at an end of the same word.
SameWord(l, c1, c2) ==
    \A j \in Min(c1, c2) + 1 .. (c1 + c2 - Min(c1, c2)) :
        ~IsSpaceAt(l, j) /\ ~IsMetaAt(l, j)

\* C7: whole-word merge.  Any two cursor positions inside or at an end of the
\* same word give the same words, the same current_word_index and the same
\* current word.
C7_WholeWordMerge ==
    Returned =>
        \A c2 \in 0 .. Len(line) :
            SameWord(line, CursorEnd, c2) =>
                /\ Extract(line, c2).words = ctx.words
                /\ Extract(line, c2).current_word_index = ctx.current_word_index
                /\ current_word(Extract(line, c2)) = current_word(ctx)

\* C8: inside a double-quoted string a quote right after a backslash does not
\* end the string: one trailing backslash leaves the word buffer, a quote is
\* appended, the rest of the buffer and the quote flag are kept.  For the
\* line  echo "a\"b" c  with the cursor at its end, a"b is one of words.
C8_EscapedQuote ==
    Returned =>
        /\ \A j \in 1 .. CursorEnd :
              LET b == ScanBefore(line, j - 1)
                  a == ScanBefore(line, j)
              IN  (b.in_string /\ b.prev_ch = Backslash /\ line[j] = Quote) =>
                      /\ a.word = Append(SubSeq(b.word, 1, Len(b.word) - 1), Quote)
                      /\ a.in_string
        /\ (line = EchoLine /\ user_cursor = Len(EchoLine)) =>
              \E i \in 1 .. Len(ctx.words) : ctx.words[i] = <<"a", Quote, "b">>

\* The number of spaces outside quotes among the characters from .. to of l.
SpacesOutsideQuotes(l, from, to) ==
    Cardinality({ j \in from .. to : IsSpaceAt(l, j) })

\* C9: metacharacter reset.  When a metacharacter (neither a valid word
\* character nor '*' nor '?') occurs outside quotes before the cursor, words
\* holds no token that began before the last one and current_word_offset is
\* greater than its position: the words completed before the cursor are those
\* the text after the metacharacter alone gives.  Nothing else resets the
\* scan: words holds one token per space outside quotes since then, and the
\* current word.  For  ls foo | grep bar  with the cursor at the end, neither
\* ls nor foo is in words.
C9_MetacharacterReset ==
    Returned =>
        LET p == LastReset(line, CursorEnd)
            done == SpacesOutsideQuotes(line, p + 1, CursorEnd)
            rest == Extract(SubSeq(line, p + 1, Len(line)), user_cursor - p)
        IN  /\ p > 0 =>
                  /\ ctx.current_word_offset > p - 1
                  /\ ctx.current_word_offset = p + rest.current_word_offset
                  /\ SubSeq(ctx.words, 1, done) = SubSeq(rest.words, 1, done)
            /\ Len(ctx.words) = done + (IF ctx.current_word_len > 0 THEN 1 ELSE 0)
            /\ (line = PipeLine /\ user_cursor = Len(PipeLine)) =>
                  \A i \in 1 .. Len(ctx.words) :
                      ctx.words[i] \notin {<<"l", "s">>, <<"f", "o", "o">>}

\* C9 witness: ls foo | grep bar, cursor at the end: the words after the pipe.
C9_Witness ==
    /\ Returned
    /\ line = PipeLine
    /\ user_cursor = Len(PipeLine)
    /\ LastReset(line, CursorEnd) = 8
    /\ ctx.words = << << >>, <<"g", "r", "e", "p">>, <<"b", "a", "r">> >>
    /\ ctx.current_word_offset = 14

\* C10: when a current word exists, current_word_offset and current_word_len
\* locate it in line: the slice of line they give is the current word, and it
\* ends within line.  For  cat /etc/ho  with the cursor at 11 the index is 1,
\* the offset 4 and the word /etc/ho.  Stated for the lines without a
\* backslash, where the escaped quotes of C7 and C8 are not in question.
C10_OffsetLenLocateWord ==
    (/\ Returned
     /\ current_word(ctx) # "None"
     /\ \A j \in 1 .. Len(line) : line[j] # Backslash) =>
        /\ ctx.current_word_offset + ctx.current_word_len <= Len(line)
        /\ SubSeq(line, ctx.current_word_offset + 1,
                  ctx.current_word_offset + ctx.current_word_len)
               = current_word(ctx)
        /\ (line = CatLine /\ user_cursor = 11) =>
              /\ ctx.current_word_index = 1
              /\ ctx.current_word_offset = 4
              /\ current_word(ctx) = <<"/", "e", "t", "c", "/", "h", "o">>

\* C19: the current word is the last element of words or absent.  When the
\* cursor's word has text, current_word_index = len(words) - 1 and
\* current_word_len is that word's length; when it is empty,
\* current_word_index = len(words), current_word_len = 0 and current_word()
\* is absent.  A cursor right after a plain character is in a word with text;
\* a cursor at the end of the line and at its start, or right after a space or
\* a metacharacter outside quotes, is in an empty word.  The empty line gives
\* empty words and index 0.
C19_CurrentWordLast ==
    Returned =>
        LET n == Len(ctx.words)
            has_text == /\ n > 0
                        /\ ctx.current_word_index = n - 1
                        /\ ctx.current_word_len = Len(ctx.words[n])
                        /\ ctx.current_word_len > 0
                        /\ current_word(ctx) = ctx.words[n]
            empty == /\ ctx.current_word_index = n
                     /\ ctx.current_word_len = 0
                     /\ current_word(ctx) = "None"
        IN  /\ has_text \/ empty
            /\ (CursorEnd > 0
                  /\ line[CursorEnd] \notin {Space, Quote, Backslash, "|"})
                  => has_text
            /\ (CursorEnd = Len(line)
                  /\ (CursorEnd = 0 \/ IsSpaceAt(line, CursorEnd)
                                    \/ IsMetaAt(line, CursorEnd)))
                  => empty
            /\ line = << >> => (ctx.words = << >> /\ ctx.current_word_index = 0)

\* C19 witness: a cursor inside the second of three words: the word under the
\* cursor is the last of words.
C19_Witness ==
    /\ Returned
    /\ line = CatLine
    /\ user_cursor = 6
    /\ Len(ctx.words) = 2
    /\ ctx.current_word_index = 1
    /\ ctx.current_word_len = 7

\* The other case of C19 is reached too: a cursor after a trailing space.
C19_EmptyWordReached ==
    /\ Returned
    /\ line = <<"a", Space>>
    /\ user_cursor = 2
    /\ ctx.words = << <<"a">> >>
    /\ ctx.current_word_index = 1
    /\ current_word(ctx) = "None"

(***************************************************************************)
(* Claims about the frame of the browser's methods.                        *)
(***************************************************************************)
\* C20: entries are frozen once a Completions is built.  No call changes the
\* entry list, its order or display_lines; move_cursor changes only
\* selected_index and display_index; the accessors (entries, len, selected,
\* selected_index, display_lines, display_index) change no field.
C20_EntriesFrozen ==
    [][/\ entries' = entries
       /\ display_lines' = display_lines
       /\ last_call' # "move_cursor" =>
              /\ selected_index' = selected_index
              /\ display_index' = display_index]_vars

\* C20 witness: entries() called on a browser of three entries after the
\* cursor was moved: it returned the three entries, which are still there.
C20_Witness ==
    /\ last_call = "entries"
    /\ returned = <<1, 2, 3>>
    /\ entries = <<1, 2, 3>>
    /\ selected_index = 2
    /\ display_lines = 5

(***************************************************************************)
(* Claims about the shift builtin.                                         *)
(***************************************************************************)
\* The count a well-formed argument vector asks for, as << n >>; << >> when
\* the argument vector is malformed.
RequestedCount ==
    IF Len(argv) = 1 THEN <<1>>
    ELSE IF Len(argv) = 2 /\ \E n \in 0 .. MaxParams + 1 : argv[2] = to_string(n)
      THEN <<CHOOSE n \in 0 .. MaxParams + 1 : argv[2] = to_string(n)>>
    ELSE << >>

\* k: the length of the run of positional parameters "0", "1", ... that the
\* store held when shift was called.
RunLength ==
    CHOOSE k \in 0 .. MaxParams + 1 :
        /\ \A i \in 0 .. k - 1 : to_string(i) \in DOMAIN isolate_before
        /\ to_string(k) \notin DOMAIN isolate_before

Max(a, b) == IF a > b THEN a ELSE b

\* C15: shift with a well-formed argument n (1 when absent) drops the first
\* n of the positional parameters "0" .. "k-1" and renumbers the rest from 0:
\* afterwards exactly the keys "0" .. "max(0,k-n)-1" of that run are defined,
\* new key i holds the old value of key i+n, and the exit code is 0, also
\* when n >= k.
C15_ShiftRenumbers ==
    (shift_pc = "returned" /\ RequestedCount # << >>) =>
        LET n == RequestedCount[1]
            k == RunLength
            left == Max(0, k - n)
        IN  /\ exit_status = 0
            /\ \A i \in 0 .. k - 1 :
                   to_string(i) \in DOMAIN isolate <=> i < left
            /\ \A i \in 0 .. left - 1 :
                   isolate[to_string(i)] = isolate_before[to_string(i + n)]

\* C15 witness: shift 2 on three parameters leaves the third one as "0".
C15_Witness ==
    /\ shift_pc = "returned"
    /\ argv = <<"shift", "2">>
    /\ RunLength = 3
    /\ isolate_before["2"] = "b"
    /\ isolate_before["0"] = "a"
    /\ isolate["0"] = "b"
    /\ "1" \notin DOMAIN isolate

\* C15 witness: shift by more than there are parameters removes them all
\* and still exits with 0.
C15_ShiftPastEnd ==
    /\ shift_pc = "returned"
    /\ argv = <<"shift", "3">>
    /\ RunLength = 2
    /\ "0" \notin DOMAIN isolate
    /\ exit_status = 0

\* C16: shift with a malformed argument reports a usage error: the exit code
\* is 1, a message is written to the command's output, and the store is left
\* as it was.
C16_ShiftUsageError ==
    (shift_pc = "returned" /\ RequestedCount = << >>) =>
        /\ exit_status = 1
        /\ Len(stdout) = 1
        /\ isolate = isolate_before

\* C16 witness: shift x on a store with parameters.
C16_Witness ==
    /\ shift_pc = "returned"
    /\ argv = <<"shift", "x">>
    /\ RunLength = 2
    /\ exit_status = 1
    /\ stdout = <<"shift: invalid value">>
    /\ isolate = isolate_before

(***************************************************************************)
(* Claims about the alias store.                                           *)
(***************************************************************************)
\* The definitions in the log that parse and define this exact name.
DefinitionsOf(name) ==
    { i \in 1 .. Len(alias_log) :
        parse_alias(alias_log[i]).ok /\ parse_alias(alias_log[i]).name = name }

\* The words of the most recent of them as << words >>, << >> without one.
MostRecent(name) ==
    LET D == DefinitionsOf(name) IN
    IF D = {} THEN << >>
    ELSE <<parse_alias(alias_log[CHOOSE i \in D : \A j \in D : j <= i]).words>>

\* C13: after any sequence of alias definitions from the empty store, the
\* store maps every name to the words of the most recent successfully parsed
\* definition of that exact name and holds no other name, lookup_alias
\* returns exactly that (None without a definition), and lookup_alias leaves
\* the store as it was.
C13_LastDefinitionWins ==
    /\ \A name \in AliasNames \cup DOMAIN aliases :
           MapGet(aliases, name) = MostRecent(name)
    /\ alias_last = "lookup_alias" =>
           /\ alias_returned = MostRecent(alias_arg[1])
           /\ aliases = aliases_before

\* C13 witness: f=b then f=z were defined and lookup_alias("f") returned the
\* words of z alone.
C13_Witness ==
    /\ alias_log = << <<"f", "=", "b">>, <<"f", "=", "z">> >>
    /\ alias_last = "lookup_alias"
    /\ alias_arg = <<"f">>
    /\ alias_returned = << <<"z">> >>

\* C13 witness: a name that was never defined is looked up beside defined ones.
C13_MissReached ==
    /\ alias_log = << <<"f", "f", "=", "b">>, <<"g", "=", "b", " ", "z">> >>
    /\ alias_last = "lookup_alias"
    /\ alias_arg = <<"f">>
    /\ alias_returned = << >>
    /\ aliases["g"] = <<"b", "z">>

\* C14: the alias command returns 0 in every case, and when no line is given
\* or the line fails to parse the store is left exactly as it was.
C14_ParseFailureDropped ==
    alias_last = "alias_command" =>
        /\ alias_returned = <<0>>
        /\ (Len(alias_arg) < 2 \/ ~parse_alias(alias_arg[2]).ok) =>
               aliases = aliases_before

\* C14 witness: a line without "=" was given to a store holding f, and the
\* command returned 0.
C14_Witness ==
    /\ alias_last = "alias_command"
    /\ alias_arg = <<"alias", <<"f">> >>
    /\ aliases_before = [k \in {"f"} |-> <<"b">>]
    /\ aliases = aliases_before
    /\ alias_returned = <<0>>

(***************************************************************************)
(* Claims about dispatch, path completion and the two mutexes.             *)
(***************************************************************************)
\* The thread has left call_completion, by return or by panic.
LeftCallCompletion(t) ==
    /\ threads[t].call = "call_completion"
    /\ threads[t].pc \in {"idle", "panicked"}

\* What path_completion can make of a context, over every answer of the
\* filesystem.
PathCompletionOutcomes(c) ==
    { path_completion(c, listing) : listing \in Listings }

\* C11: at word 0 the result is command-name completion and no registered
\* generator is invoked; at any other word words[0] exists and is looked up
\* in the registry: on a hit that generator's result is returned, on a miss
\* (so with the empty registry) the outcome is that of path completion on the
\* same context.
C11_DispatchRule ==
    \A t \in Threads :
        LeftCallCompletion(t) =>
            LET c == threads[t].arg IN
            IF c.current_word_index = 0
            THEN /\ threads[t].generator = "cmd_completion"
                 /\ threads[t].result = <<cmd_completion(c)>>
            ELSE /\ Len(c.words) >= 1
                 /\ IF c.words[1] \in DOMAIN funcs
                    THEN /\ threads[t].generator = c.words[1]
                         /\ threads[t].result = <<funcs[c.words[1]]>>
                    ELSE /\ threads[t].generator = "path_completion"
                         /\ [panic |-> threads[t].panic,
                             read_dir |-> threads[t].read_dir,
                             query |-> threads[t].query,
                             result |-> threads[t].result]
                                \in PathCompletionOutcomes(c)

InFuncs(t) == threads[t].pc = "dispatch"

InAliases(t) == threads[t].pc = "aliases_locked"

\* The complete values a lookup of this name may return: None, or the words
\* of one of the definitions given.
CompleteValues(name) ==
    { << >> } \cup { <<parse_alias(l).words>> :
                       l \in { x \in SharedAliasLines :
                                 parse_alias(x).ok /\ parse_alias(x).name = name } }

\* C12: under every interleaving of dispatch, alias-define and alias-lookup
\* calls of the threads, no two threads are inside the same map at once, a
\* lookup returns a complete value (None, or all the words of one
\* definition), a mutex is held only by a thread inside its own map (so
\* never together with the other mutex, and not after the operation ended),
\* and a thread waiting for a mutex can take it or its holder can go on.
C12_RegistriesGuarded ==
    /\ \A t1, t2 \in Threads :
           t1 # t2 => /\ ~(InFuncs(t1) /\ InFuncs(t2))
                      /\ ~(InAliases(t1) /\ InAliases(t2))
    /\ \A t \in Threads :
           /\ (threads[t].call = "lookup_alias" /\ threads[t].pc = "idle") =>
                  threads[t].result \in CompleteValues(threads[t].arg)
           /\ funcs_lock = t <=> InFuncs(t)
           /\ aliases_lock = t <=> InAliases(t)
           /\ ~(funcs_lock = t /\ aliases_lock = t)
           /\ threads[t].pc = "lock_funcs" =>
                  \/ ENABLED lock_funcs(t)
                  \/ \E h \in Threads : funcs_lock = h /\ ENABLED dispatch(h)
           /\ threads[t].pc = "lock_aliases" =>
                  \/ ENABLED lock_aliases(t)
                  \/ \E h \in Threads :
                        aliases_lock = h /\ ENABLED (insert_alias(h) \/ get_alias(h))

\* C12 witness: the command thread is inside ALIASES redefining f while the
\* render thread waits for the mutex to look f up.
C12_Witness ==
    /\ threads["command"].pc = "aliases_locked"
    /\ threads["command"].call = "alias_command"
    /\ threads["command"].arg = <<"alias", <<"f", "=", "b", " ", "z">> >>
    /\ "f" \in DOMAIN aliases
    /\ aliases["f"] = <<"b">>
    /\ threads["render"].pc = "lock_aliases"
    /\ threads["render"].call = "lookup_alias"

\* C12 witness: one thread is inside COMPLETION_FUNCS, the other inside
\* ALIASES.
C12_BothMapsBusy ==
    /\ InFuncs("render")
    /\ InAliases("command")

\* C17: when no parent() was None, a failure of the filesystem during path
\* completion ends no thread and poisons no mutex: path completion returns a
\* Completions value with the mutex released, and so does every later
\* call_completion.
C17_FilesystemFailureContained ==
    (\A t \in Threads : threads[t].panic # "parent_unwrap") =>
        /\ ~funcs_poisoned
        /\ \A t \in Threads :
               /\ threads[t].panic = "none"
               /\ LeftCallCompletion(t) =>
                      /\ threads[t].result # << >>
                      /\ funcs_lock # t

\* The text of a word before its last '/', the root when that is all.
TextualParent(w) ==
    LET last == CHOOSE i \in 1 .. Len(w) :
                    w[i] = "/" /\ \A j \in i + 1 .. Len(w) : w[j] # "/"
    IN  IF last = 1 THEN <<"/">> ELSE SubSeq(w, 1, last - 1)

\* The directory the claim has path completion list.
ExpectedDirectory(c) ==
    IF HasCurrentWord(c) /\ ends_with(current_word(c), "/") THEN current_word(c)
    ELSE IF HasCurrentWord(c) /\ contains(current_word(c), "/")
      THEN TextualParent(current_word(c))
    ELSE <<".">>

\* C18: path completion lists the current word if it ends with '/', else
\* its parent directory if it contains '/', else the working directory; the
\* query is the whole current word, and without a current word there is no
\* query.
C18_DirectoryFromCurrentWord ==
    \A t \in Threads :
        (LeftCallCompletion(t) /\ threads[t].generator = "path_completion") =>
            LET c == threads[t].arg IN
            /\ threads[t].read_dir = <<ExpectedDirectory(c)>>
            /\ threads[t].panic = "none" =>
                   threads[t].query = IF HasCurrentWord(c)
                                      THEN <<current_word(c)>> ELSE << >>

====
